---- MODULE Spec2Model ----
(***************************************************************************)
(* Model of fillaridata's incremental update: modules/data.py              *)
(* (update_data and its helpers), modules/fmi.py (weather enrichment) and  *)
(* classes/Datafile.py (the HDF5 store).                                   *)
(*                                                                         *)
(* Timestamps are whole seconds counted from 2016-01-01T00:00:00Z, the     *)
(* default that Datafile.last_date returns for a missing data file.        *)
(***************************************************************************)
EXTENDS Integers, Sequences, FiniteSets, TLC

VARIABLES
    source,       \* kind of the --source argument
    names,        \* what the source lists (links or directory entries)
    first,        \* update_data's arguments
    limit,
    batch,
    store,        \* rows under key 'data' of the HDF5 file
    df_data,      \* Datafile.data, read from the file when the process starts
    pc,           \* position of the process
    status,       \* exit status of the process; NaN while it runs
    raised_in,    \* function whose exception ended the process
    filenames,    \* update_data's local: the new filenames
    batches,      \* update_data's local: the planned batches
    k,            \* index of the batch the for loop is at (1-based)
    new_data,     \* update_data's local: the table of the current batch
    failures,     \* __get_bike_data's failure count of the current batch
    parsed,       \* per file of the current batch, what reading it gave
    appended,     \* history: indexes of the batches written by this process
    run,          \* number of the process (1 = first invocation)
    w_start,      \* __get_weather_data's arguments and locals
    w_stop,
    w_step,
    w_todo,       \* range starts the for loop has not visited yet
    w_data,       \* rows appended so far
    w_log,        \* history: the sub-ranges fetched, with what each gave
    weather_data, \* table __get_weather_data returned
    service       \* what the weather service answers: "steady" or "any"

vars == <<source, names, first, limit, batch, store, df_data, pc, status,
          raised_in, filenames, batches, k, new_data, failures, parsed,
          appended, run, w_start, w_stop, w_step, w_todo, w_data, w_log,
          weather_data, service>>

----------------------------------------------------------------------------
(* Bounds of the model *)

MaxFiles == 3      \* longest listing
MaxTick == 5       \* filename timestamps are 30 s, 60 s, ..., MaxTick * 30 s
MaxRuns == 2       \* invocations of the program in one behaviour
MaxRanges == 3     \* most sub-ranges of one weather fetch

(* Program constants *)

Minute == 60       \* seconds in a minute: .replace(second=0), freq="min"
Step == 86400      \* the "1d" step add_weather_data passes
Pad == 600         \* the 10 minutes added to the stopping time
NaN == -1          \* a missing value of a table

----------------------------------------------------------------------------
(* Sequences *)

Min2(a, b) == IF a < b THEN a ELSE b

SetMin(S) == CHOOSE x \in S : \A y \in S : x <= y

SetMax(S) == CHOOSE x \in S : \A y \in S : x >= y

RECURSIVE Flatten(_)
Flatten(ss) == IF ss = <<>> THEN <<>> ELSE Head(ss) \o Flatten(Tail(ss))

(* Python's s[a:b] for 0 <= a, clamped to the length as Python clamps it. *)
Slice(s, a, b) == SubSeq(s, a + 1, Min2(b, Len(s)))

(* Python's range(start, stop, step) as a sequence; step = 0 is an error   *)
(* the caller handles before using it.                                     *)
PyRangeLen(start, stop, step) ==
    IF step > 0
    THEN (IF stop > start THEN (stop - start + step - 1) \div step ELSE 0)
    ELSE (IF stop < start THEN (start - stop - step - 1) \div (0 - step) ELSE 0)

PyRange(start, stop, step) ==
    [i \in 1..PyRangeLen(start, stop, step) |-> start + (i - 1) * step]

----------------------------------------------------------------------------
(* File names.  A name is a record: kind "ok" is stations_yyyymmddThhmmssZ *)
(* with a real date (ts = its timestamp), kind "baddate" has the digits    *)
(* the regular expression asks for but no date pandas can parse (month     *)
(* 13), kind "other" does not match the expression.                        *)

Ticks == {30 * i : i \in 1..MaxTick}

OkName(t) == [kind |-> "ok", ts |-> t]

BadDate == [kind |-> "baddate", ts |-> 0]

Other == [kind |-> "other", ts |-> 0]

(* re.match("stations_\d{8}T\d{6}Z", name) *)
Matches(name) == name.kind \in {"ok", "baddate"}

(* pd.to_datetime(f[9:]) raises for a name that holds no date *)
Parses(name) == name.kind = "ok"

(* pd.Timestamp(file[9:]).replace(second=0) *)
Trunc(t) == t - (t % Minute)

----------------------------------------------------------------------------
(* Datafile.last_date.  Datafile.data is the table read from the file, or  *)
(* None when there is no file or no key 'data' in it: the empty sequence   *)
(* stands for None, since update never writes a table without rows.        *)

FloorDate == 0

Last_date(data) ==
    IF data = <<>> THEN FloorDate
    ELSE SetMax({data[i].date_utc : i \in 1..Len(data)})

----------------------------------------------------------------------------
(* __get_filenames as a function of the listing: what it does (return,     *)
(* sys.exit() or an exception), the exit status and the list returned.     *)

MatchesOf(nms) == SelectSeq(nms, Matches)

(* the new filenames taken with >= : the last stored file comes again *)
DueInclusive(nms, start_after) ==
    SelectSeq(MatchesOf(nms), LAMBDA f : f.ts >= start_after)

Due(nms, start_after) ==
    SelectSeq(MatchesOf(nms), LAMBDA f : f.ts > start_after)

Get_filenames(src, nms, start_after) ==
    IF src = "invalid"
    THEN [outcome |-> "exit", status |-> 0, due |-> <<>>]
    ELSE IF ~(Len(MatchesOf(nms)) > 1)
    THEN [outcome |-> "exit", status |-> 0, due |-> <<>>]
    ELSE IF \E i \in 1..Len(MatchesOf(nms)) : ~Parses(MatchesOf(nms)[i])
    THEN [outcome |-> "raise", status |-> 1, due |-> <<>>]
    ELSE IF Len(Due(nms, start_after)) = 0
    THEN [outcome |-> "exit", status |-> 0, due |-> <<>>]
    ELSE [outcome |-> "return", status |-> 0, due |-> Due(nms, start_after)]

----------------------------------------------------------------------------
(* __trim_split_filenames *)

(* --first applied with > : an entry equal to first is dropped *)
ApplyFirstStrict(fs, fst) == SelectSeq(fs, LAMBDA f : f.ts > fst)

ApplyFirst(fs, fst) == SelectSeq(fs, LAMBDA f : f.ts >= fst)

ApplyLimit(fs, lim) ==
    IF lim > 0
    THEN Slice(fs, 0, IF lim < Len(fs) THEN lim ELSE Len(fs))
    ELSE fs

Split(fs, b) ==
    LET xs == PyRange(0, Len(fs), b)
    IN  [i \in 1..Len(xs) |-> Slice(fs, xs[i], xs[i] + b)]

Trim_split_filenames(fs, fst, lim, b) ==
    IF b = 0
    THEN [outcome |-> "raise", batches |-> <<>>]
    ELSE [outcome |-> "return",
          batches |-> Split(ApplyLimit(ApplyFirst(fs, fst), lim), b)]

----------------------------------------------------------------------------
(* __get_bike_data.  Reading one file either fails (any exception of the   *)
(* try block) or gives the stations of its "result" array, in the array's  *)
(* order.  A row is keyed by (date_utc, name); val stands for the          *)
(* station's availability fields and is the file's full timestamp, so      *)
(* rows of different files differ.                                         *)

StationOrder == <<"A", "B">>

Failed == [ok |-> FALSE, stations |-> <<>>]

Read(stations) == [ok |-> TRUE, stations |-> stations]

Reads == {Failed, Read(<<"A">>), Read(<<"B", "A">>)}

FileRows(file, read) ==
    [j \in 1..Len(read.stations) |->
        [date_utc |-> Trunc(file.ts), name |-> read.stations[j],
         val |-> file.ts]]

RECURSIVE LoadRows(_, _)
LoadRows(files, reads) ==
    IF files = <<>> THEN <<>>
    ELSE (IF Head(reads).ok THEN FileRows(Head(files), Head(reads)) ELSE <<>>)
         \o LoadRows(Tail(files), Tail(reads))

Get_bike_data(files, reads) ==
    [data |-> LoadRows(files, reads),
     failures |-> Cardinality({i \in 1..Len(files) : ~reads[i].ok})]

----------------------------------------------------------------------------
(* __generate_missing_rows *)

(* pd.date_range(start, stop, freq=step): start, start + step, ... <= stop *)
DateRange(start, stop, step) ==
    IF stop < start THEN <<>>
    ELSE [i \in 1..((stop - start) \div step) + 1 |-> start + (i - 1) * step]

Key(row) == <<row.date_utc, row.name>>

HasDuplicates(data) ==
    \E i, j \in 1..Len(data) : i < j /\ Key(data[i]) = Key(data[j])

(* data.index.levels[1].values: the distinct names, sorted *)
Levels1(data) ==
    SelectSeq(StationOrder, LAMBDA s : \E i \in 1..Len(data) : data[i].name = s)

Reindexed(data, m, s) ==
    IF \E i \in 1..Len(data) : Key(data[i]) = <<m, s>>
    THEN data[CHOOSE i \in 1..Len(data) : Key(data[i]) = <<m, s>>]
    ELSE [date_utc |-> m, name |-> s, val |-> NaN]

Grid(data) ==
    LET start == SetMin({data[i].date_utc : i \in 1..Len(data)})
        stop == SetMax({data[i].date_utc : i \in 1..Len(data)})
        date_utc == DateRange(start, stop, Minute)
        name == Levels1(data)
        n == Len(name)
    IN  [x \in 1..(Len(date_utc) * n) |->
            Reindexed(data, date_utc[((x - 1) \div n) + 1],
                      name[((x - 1) % n) + 1])]

(* An empty table has no index.min()[0]; reindex refuses a MultiIndex      *)
(* that holds a key twice.                                                 *)
Generate_missing_rows(data) ==
    IF data = <<>> \/ HasDuplicates(data)
    THEN [outcome |-> "raise", data |-> <<>>]
    ELSE [outcome |-> "return", data |-> Grid(data)]

----------------------------------------------------------------------------
(* __get_weather_range seen from its caller: None when the request         *)
(* failed (a timeout or any other exception), else the rows parsed from    *)
(* the answer.  A row holds the observation time and the four target       *)
(* parameters; R_1H may be NaN, the other three come dense.                *)

Obs(t, dense, rain) ==
    [t |-> t, T |-> dense, WS_10MIN |-> dense, P_SEA |-> dense, R_1H |-> rain]

NoAnswer == [none |-> TRUE, rows |-> <<>>]

Answer(rows) == [none |-> FALSE, rows |-> rows]

(* What a steady service holds for time t: rainfall on the full hour only. *)
Steady(t) == Obs(t, 1, IF t % 3600 = 0 THEN 7 ELSE NaN)

(* Any observation the service may give for time t. *)
AnyObs(t) == {Obs(t, 1, NaN), Obs(t, 1, 7), Obs(t, 2, 8)}

(* Answers for the sub-range [rs, re]: rows in time order, at the ends of  *)
(* the sub-range (the end of one sub-range is the start of the next, so    *)
(* the same time can come twice).                                          *)
Answers(svc, rs, re) ==
    LET at(t) == IF svc = "steady" THEN {Steady(t)} ELSE AnyObs(t)
    IN  {NoAnswer, Answer(<<>>)}
        \cup {Answer(<<a>>) : a \in at(rs) \cup at(re)}
        \cup (IF rs < re
              THEN {Answer(<<a, b>>) : a \in at(rs), b \in at(re)}
              ELSE {})

----------------------------------------------------------------------------
(* __get_weather_data *)

(* range_stop of the sub-range starting at range_start *)
RangeStop(range_start, step, stop) ==
    IF range_start + step > stop THEN stop ELSE range_start + step

(* data.append(None) leaves data as it is *)
AppendAnswer(data, answer) ==
    IF answer.none THEN data ELSE data \o answer.rows

(* fillna(method="ffill") on R_1H: a NaN takes the last value before it *)
RECURSIVE FFillFrom(_, _)
FFillFrom(rows, last) ==
    IF rows = <<>> THEN <<>>
    ELSE LET r == IF Head(rows).R_1H = NaN THEN last ELSE Head(rows).R_1H
         IN  <<[Head(rows) EXCEPT !.R_1H = r]>> \o FFillFrom(Tail(rows), r)

FFill(rows) == FFillFrom(rows, NaN)

Reverse(s) == [i \in 1..Len(s) |-> s[Len(s) + 1 - i]]

(* fillna(method="bfill") on R_1H: a NaN takes the next value after it *)
BFill(rows) == Reverse(FFill(Reverse(rows)))

(* duplicated(keep="last") in place of keep="first" *)
DropDuplicatedKeepLast(rows) ==
    LET keep == {i \in 1..Len(rows) :
                    \A j \in (i + 1)..Len(rows) : rows[j].t # rows[i].t}
        pick[i \in 0..Len(rows)] ==
            IF i = 0 THEN <<>>
            ELSE IF i \in keep THEN Append(pick[i - 1], rows[i])
            ELSE pick[i - 1]
    IN  pick[Len(rows)]

(* data[~data.index.duplicated(keep="first")] *)
DropDuplicated(rows) ==
    LET keep == {i \in 1..Len(rows) : \A j \in 1..(i - 1) : rows[j].t # rows[i].t}
        pick[i \in 0..Len(rows)] ==
            IF i = 0 THEN <<>>
            ELSE IF i \in keep THEN Append(pick[i - 1], rows[i])
            ELSE pick[i - 1]
    IN  pick[Len(rows)]

(* lines 145-149: an empty frame has no column R_1H to fill *)
Fill_and_dedupe(data) ==
    IF data = <<>>
    THEN [outcome |-> "raise", data |-> <<>>]
    ELSE [outcome |-> "return", data |-> DropDuplicated(BFill(FFill(data)))]

----------------------------------------------------------------------------
(* add_weather_data's join *)

IsIncreasing(rows) == \A i \in 1..(Len(rows) - 1) : rows[i].t < rows[i + 1].t

(* the nearest row with a tie going to the row before t *)
NearestEarlierOnTie(weather, t) ==
    LET left == {i \in 1..Len(weather) : weather[i].t <= t}
        right == {i \in 1..Len(weather) : weather[i].t >= t}
        l == SetMax(left)
        r == SetMin(right)
    IN  IF right = {} THEN weather[l]
        ELSE IF left = {} THEN weather[r]
        ELSE IF t - weather[l].t <= weather[r].t - t THEN weather[l]
        ELSE weather[r]

(* reindex(..., method="nearest") over an increasing index: the row at or  *)
(* before t unless the row at or after t is as near or nearer.             *)
Nearest(weather, t) ==
    LET left == {i \in 1..Len(weather) : weather[i].t <= t}
        right == {i \in 1..Len(weather) : weather[i].t >= t}
        l == SetMax(left)
        r == SetMin(right)
    IN  IF right = {} THEN weather[l]
        ELSE IF left = {} THEN weather[r]
        ELSE IF t - weather[l].t < weather[r].t - t THEN weather[l]
        ELSE weather[r]

WithWeather(row, w) ==
    [date_utc |-> row.date_utc, name |-> row.name, val |-> row.val,
     T |-> w.T, WS_10MIN |-> w.WS_10MIN, P_SEA |-> w.P_SEA, R_1H |-> w.R_1H]

Join(data, weather) ==
    IF ~IsIncreasing(weather)
    THEN [outcome |-> "raise", data |-> <<>>]
    ELSE [outcome |-> "return",
          data |-> [i \in 1..Len(data) |->
                       WithWeather(data[i], Nearest(weather, data[i].date_utc))]]

----------------------------------------------------------------------------
(* The process: fillaridata update, one action per call update_data makes. *)

Raise(fn) ==
    /\ pc' = "raised"
    /\ raised_in' = fn
    /\ status' = 1

(* sys.exit() without an argument: exit status 0 *)
SysExit ==
    /\ pc' = "exited"
    /\ status' = 0
    /\ UNCHANGED raised_in

Inputs == <<source, names, first, limit, batch, run, service>>

WeatherLocals == <<w_start, w_stop, w_step, w_todo, w_data, w_log, weather_data>>

(* line 44: filenames = __get_filenames(source, datafile.last_date()) *)
GetFilenames ==
    /\ pc = "get_filenames"
    /\ LET r == Get_filenames(source, names, Last_date(df_data))
       IN  \/ /\ r.outcome = "exit"
              /\ SysExit
              /\ UNCHANGED filenames
           \/ /\ r.outcome = "raise"
              /\ Raise("__get_filenames")
              /\ UNCHANGED filenames
           \/ /\ r.outcome = "return"
              /\ filenames' = r.due
              /\ pc' = "trim_split"
              /\ UNCHANGED <<status, raised_in>>
    /\ UNCHANGED <<Inputs, store, df_data, batches, k, new_data, failures,
                   parsed, appended, WeatherLocals>>

(* line 45, and the for loop's start at line 47: with no batch the loop    *)
(* body never runs and update_data returns None.                           *)
TrimSplit ==
    /\ pc = "trim_split"
    /\ LET r == Trim_split_filenames(filenames, first, limit, batch)
       IN  \/ /\ r.outcome = "raise"
              /\ Raise("__trim_split_filenames")
              /\ UNCHANGED <<batches, k>>
           \/ /\ r.outcome = "return"
              /\ batches' = r.batches
              /\ k' = 1
              /\ pc' = IF r.batches = <<>> THEN "returned" ELSE "get_bike_data"
              /\ status' = IF r.batches = <<>> THEN 0 ELSE status
              /\ UNCHANGED raised_in
    /\ UNCHANGED <<Inputs, store, df_data, filenames, new_data, failures,
                   parsed, appended, WeatherLocals>>

(* line 48 *)
GetBikeData ==
    /\ pc = "get_bike_data"
    /\ \E reads \in [1..Len(batches[k]) -> Reads] :
          /\ parsed' = reads
          /\ new_data' = Get_bike_data(batches[k], reads).data
          /\ failures' = Get_bike_data(batches[k], reads).failures
    /\ pc' = "generate_missing_rows"
    /\ UNCHANGED <<Inputs, store, df_data, status, raised_in, filenames,
                   batches, k, appended, WeatherLocals>>

(* line 49 *)
GenerateMissingRows ==
    /\ pc = "generate_missing_rows"
    /\ LET r == Generate_missing_rows(new_data)
       IN  \/ /\ r.outcome = "raise"
              /\ Raise("__generate_missing_rows")
              /\ UNCHANGED new_data
           \/ /\ r.outcome = "return"
              /\ new_data' = r.data
              /\ pc' = "add_weather_data"
              /\ UNCHANGED <<status, raised_in>>
    /\ UNCHANGED <<Inputs, store, df_data, filenames, batches, k, failures,
                   parsed, appended, WeatherLocals>>

(* line 50, into add_weather_data (fmi.py lines 28-31) and the head of     *)
(* __get_weather_data (lines 126-131)                                      *)
AddWeatherData ==
    /\ pc = "add_weather_data"
    /\ LET start == SetMin({new_data[i].date_utc : i \in 1..Len(new_data)})
           stop == SetMax({new_data[i].date_utc : i \in 1..Len(new_data)})
       IN  /\ w_start' = start
           /\ w_stop' = stop + Pad
           /\ w_step' = Step
           /\ w_todo' = DateRange(start, stop + Pad, Step)
    /\ w_data' = <<>>
    /\ w_log' = <<>>
    /\ pc' = "get_weather_range"
    /\ UNCHANGED <<Inputs, store, df_data, status, raised_in, filenames,
                   batches, k, new_data, failures, parsed, appended,
                   weather_data>>

(* one turn of the for loop, fmi.py lines 131-138 *)
GetWeatherRange ==
    /\ pc = "get_weather_range"
    /\ w_todo # <<>>
    /\ LET range_start == Head(w_todo)
           range_stop == RangeStop(range_start, w_step, w_stop)
       IN  \E answer \in Answers(service, range_start, range_stop) :
              /\ w_data' = AppendAnswer(w_data, answer)
              /\ w_log' = Append(w_log, [start |-> range_start,
                                         stop |-> range_stop,
                                         answer |-> answer])
    /\ w_todo' = Tail(w_todo)
    /\ UNCHANGED <<Inputs, store, df_data, pc, status, raised_in, filenames,
                   batches, k, new_data, failures, parsed, appended,
                   w_start, w_stop, w_step, weather_data>>

(* after the loop, fmi.py lines 145-149 *)
GetWeatherDataReturn ==
    /\ pc = "get_weather_range"
    /\ w_todo = <<>>
    /\ LET r == Fill_and_dedupe(w_data)
       IN  \/ /\ r.outcome = "raise"
              /\ Raise("__get_weather_data")
              /\ UNCHANGED weather_data
           \/ /\ r.outcome = "return"
              /\ weather_data' = r.data
              /\ pc' = "join"
              /\ UNCHANGED <<status, raised_in>>
    /\ UNCHANGED <<Inputs, store, df_data, filenames, batches, k, new_data,
                   failures, parsed, appended, w_start, w_stop, w_step,
                   w_todo, w_data, w_log>>

(* fmi.py lines 34-39 *)
AddWeatherDataJoin ==
    /\ pc = "join"
    /\ LET r == Join(new_data, weather_data)
       IN  \/ /\ r.outcome = "raise"
              /\ Raise("add_weather_data")
              /\ UNCHANGED new_data
           \/ /\ r.outcome = "return"
              /\ new_data' = r.data
              /\ pc' = "update"
              /\ UNCHANGED <<status, raised_in>>
    /\ UNCHANGED <<Inputs, store, df_data, filenames, batches, k, failures,
                   parsed, appended, WeatherLocals>>

(* Datafile.update, lines 58-67: store['data'] = data.append(new_data) *)
Written(stored, table) == stored \o table

(* update's exception caught inside the loop, which goes on *)
DatafileUpdateSwallowing ==
    /\ pc = "update"
    /\ \/ /\ store' = Written(store, new_data)
          /\ appended' = Append(appended, k)
       \/ UNCHANGED <<store, appended>>
    /\ IF k < Len(batches)
       THEN /\ k' = k + 1
            /\ pc' = "get_bike_data"
            /\ UNCHANGED status
       ELSE /\ pc' = "returned"
            /\ status' = 0
            /\ UNCHANGED k
    /\ UNCHANGED <<Inputs, df_data, raised_in, filenames, batches, new_data,
                   failures, parsed, WeatherLocals>>

(* line 51 and the loop's step to the next batch.  update can raise before *)
(* it has written (opening the store, reading it, the write itself) and    *)
(* after (line 68 reads the whole store back, line 69 closes the file).    *)
DatafileUpdate ==
    /\ pc = "update"
    /\ \/ /\ store' = Written(store, new_data)
          /\ appended' = Append(appended, k)
          /\ IF k < Len(batches)
             THEN /\ k' = k + 1
                  /\ pc' = "get_bike_data"
                  /\ UNCHANGED status
             ELSE /\ pc' = "returned"
                  /\ status' = 0
                  /\ UNCHANGED k
          /\ UNCHANGED raised_in
       \/ /\ Raise("update")
          /\ UNCHANGED <<store, appended, k>>
       \/ /\ store' = Written(store, new_data)
          /\ appended' = Append(appended, k)
          /\ Raise("update")
          /\ UNCHANGED k
    /\ UNCHANGED <<Inputs, df_data, filenames, batches, new_data, failures,
                   parsed, WeatherLocals>>

(* The program is started again on the same source after a run that       *)
(* returned: Datafile.__init__ reads the file the last process left.       *)
Rerun ==
    /\ pc = "returned"
    /\ run < MaxRuns
    /\ run' = run + 1
    /\ df_data' = store
    /\ pc' = "get_filenames"
    /\ status' = NaN
    /\ raised_in' = ""
    /\ filenames' = <<>>
    /\ batches' = <<>>
    /\ k' = 0
    /\ new_data' = <<>>
    /\ failures' = 0
    /\ parsed' = <<>>
    /\ appended' = <<>>
    /\ w_start' = 0 /\ w_stop' = 0 /\ w_step' = 0
    /\ w_todo' = <<>> /\ w_data' = <<>> /\ w_log' = <<>>
    /\ weather_data' = <<>>
    /\ UNCHANGED <<source, names, first, limit, batch, store, service>>

----------------------------------------------------------------------------
(* Initial states *)

RECURSIVE SeqsUpTo(_, _)
SeqsUpTo(S, n) ==
    IF n = 0 THEN {<<>>}
    ELSE LET shorter == SeqsUpTo(S, n - 1)
         IN  shorter \cup {Append(s, x) : s \in shorter, x \in S}

IsChronological(fs) == \A i \in 1..(Len(fs) - 1) : fs[i].ts < fs[i + 1].ts

(* Listings of a source whose files are in time order, as the program      *)
(* expects of its source.                                                  *)
Listings ==
    {fs \in SeqsUpTo({OkName(t) : t \in Ticks}, MaxFiles) : IsChronological(fs)}

Fresh ==
    /\ status = NaN
    /\ raised_in = ""
    /\ filenames = <<>>
    /\ batches = <<>>
    /\ k = 0
    /\ new_data = <<>>
    /\ failures = 0
    /\ parsed = <<>>
    /\ appended = <<>>
    /\ w_start = 0 /\ w_stop = 0 /\ w_step = 0
    /\ w_todo = <<>> /\ w_data = <<>> /\ w_log = <<>>
    /\ weather_data = <<>>

(* update_data is entered with its six arguments and no data file yet.    *)
(* An invalid source lists nothing.                                        *)
Init ==
    /\ source \in {"http", "dir", "invalid"}
    /\ names \in (IF source = "invalid" THEN {<<>>} ELSE Listings)
    /\ first \in {0, 60}
    /\ limit \in {0, 2}
    /\ batch \in -1..2
    /\ store = <<>>
    /\ df_data = <<>>
    /\ pc = "get_filenames"
    /\ run = 1
    /\ service = "steady"
    /\ Fresh

Next ==
    \/ GetFilenames
    \/ TrimSplit
    \/ GetBikeData
    \/ GenerateMissingRows
    \/ AddWeatherData
    \/ GetWeatherRange
    \/ GetWeatherDataReturn
    \/ AddWeatherDataJoin
    \/ DatafileUpdate
    \/ Rerun

Spec == Init /\ [][Next]_vars

----------------------------------------------------------------------------
(* __get_filenames on any listing: names in any order, names that do not   *)
(* match, names without a date, and a data file that holds rows of any     *)
(* minute or does not exist.                                               *)

AnyNames == {OkName(t) : t \in Ticks} \cup {BadDate, Other}

StoredRow(m) ==
    [date_utc |-> m, name |-> "A", val |-> m,
     T |-> 1, WS_10MIN |-> 1, P_SEA |-> 1, R_1H |-> 7]

InitList ==
    /\ source \in {"http", "dir", "invalid"}
    /\ names \in (IF source = "invalid" THEN {<<>>}
                  ELSE SeqsUpTo(AnyNames, MaxFiles))
    /\ first = 0
    /\ limit = 0
    /\ batch = 1
    /\ store \in {<<>>} \cup {<<StoredRow(Trunc(t))>> : t \in Ticks}
    /\ df_data = store
    /\ pc = "get_filenames"
    /\ run = 1
    /\ service = "steady"
    /\ Fresh

SpecList == InitList /\ [][GetFilenames]_vars

(* __trim_split_filenames on any list of filenames and any options. *)

InitPlan ==
    /\ source = "dir"
    /\ filenames \in SeqsUpTo({OkName(t) : t \in Ticks}, MaxFiles)
    /\ names = filenames
    /\ first \in {0} \cup Ticks
    /\ limit \in -1..(MaxFiles + 1)
    /\ batch \in -1..(MaxFiles + 1)
    /\ store = <<>>
    /\ df_data = <<>>
    /\ pc = "trim_split"
    /\ run = 1
    /\ service = "steady"
    /\ status = NaN
    /\ raised_in = ""
    /\ batches = <<>>
    /\ k = 0
    /\ new_data = <<>>
    /\ failures = 0
    /\ parsed = <<>>
    /\ appended = <<>>
    /\ w_start = 0 /\ w_stop = 0 /\ w_step = 0
    /\ w_todo = <<>> /\ w_data = <<>> /\ w_log = <<>>
    /\ weather_data = <<>>

SpecPlan == InitPlan /\ [][TrimSplit]_vars

(* __get_weather_data over one to MaxRanges sub-ranges of a service that   *)
(* may answer anything: entered with start, stop and step as               *)
(* add_weather_data passes them, stop a whole number of steps after start  *)
(* or ten minutes less.                                                    *)

WeatherStops ==
    {n * Step : n \in 0..(MaxRanges - 1)}
    \cup {n * Step - Pad : n \in 1..(MaxRanges - 1)}

InitWeather ==
    /\ source = "dir"
    /\ names = <<>>
    /\ first = 0
    /\ limit = 0
    /\ batch = 1
    /\ store = <<>>
    /\ df_data = <<>>
    /\ pc = "get_weather_range"
    /\ run = 1
    /\ service = "any"
    /\ status = NaN
    /\ raised_in = ""
    /\ filenames = <<>>
    /\ batches = <<>>
    /\ k = 0
    /\ new_data = <<>>
    /\ failures = 0
    /\ parsed = <<>>
    /\ appended = <<>>
    /\ w_start \in {0, Minute}
    /\ \E stop \in WeatherStops :
          /\ w_stop = w_start + stop + Pad
          /\ w_todo = DateRange(w_start, w_start + stop + Pad, Step)
    /\ w_step = Step
    /\ w_data = <<>>
    /\ w_log = <<>>
    /\ weather_data = <<>>

NextWeather == GetWeatherRange \/ GetWeatherDataReturn

SpecWeather == InitWeather /\ [][NextWeather]_vars

----------------------------------------------------------------------------
(* Properties *)

InLoop ==
    pc \in {"get_bike_data", "generate_missing_rows", "add_weather_data",
            "get_weather_range", "join", "update"}

BatchSteps ==
    {"__generate_missing_rows", "__get_weather_data", "add_weather_data",
     "update"}

UpTo(n) == [i \in 1..n |-> i]

(* C1 as amended.  The batches written are always batch 1, 2, ..., n, each *)
(* once and in list order, and a batch is written only after the batches   *)
(* before it went through load, grid completion, enrichment and update.    *)
(* When a step of batch k raises the process has ended: for a step before  *)
(* update exactly the batches before k are written; when update itself     *)
(* raises, the batches before k are written and batch k may be written     *)
(* too (update raised after its write); no batch after k is ever written.  *)
C1_StopsAtFailingBatch ==
    /\ appended = UpTo(Len(appended))
    /\ InLoop => Len(appended) = k - 1
    /\ pc = "returned" => Len(appended) = Len(batches)
    /\ (pc = "raised" /\ raised_in \notin BatchSteps) => appended = <<>>
    /\ (pc = "raised" /\ raised_in \in BatchSteps \ {"update"})
          => Len(appended) = k - 1
    /\ (pc = "raised" /\ raised_in = "update") => Len(appended) \in {k - 1, k}
    /\ pc = "raised" => ~ENABLED Next

(* C1's case: update raised on the second batch after writing it. *)
C1_Witness ==
    /\ pc = "raised"
    /\ raised_in = "update"
    /\ k = 2
    /\ appended = <<1, 2>>
    /\ Len(batches) > 2

(* C1 as claimed: when a step of batch k raises, update included, exactly  *)
(* the batches before k are written and no batch from k on.                *)
C1_NoBatchFromKOn ==
    (pc = "raised" /\ raised_in \in BatchSteps) => appended = UpTo(k - 1)

(* C2 as claimed: once every listed file's minute is in the store, running *)
(* the program again on the same listing selects no filename, exits and    *)
(* writes nothing.                                                         *)
AllStored ==
    \A i \in 1..Len(names) :
        \E j \in 1..Len(df_data) : df_data[j].date_utc = Trunc(names[i].ts)

C2_RerunAppendsNothing ==
    (run > 1 /\ AllStored)
        => (pc \in {"get_filenames", "exited"} /\ store = df_data)

(* C3 as claimed: __get_bike_data returns the rows of the files that       *)
(* parsed, in file order, with the number of files that did not; and       *)
(* whichever files failed, all of them included, grid completion does not  *)
(* stop the run (a table that holds a key twice set aside).                *)
ParsedRows(files, reads) ==
    Flatten([i \in 1..Len(files) |->
                IF reads[i].ok THEN FileRows(files[i], reads[i]) ELSE <<>>])

C3_ParseFailuresNeverAbort ==
    /\ pc = "generate_missing_rows"
          => /\ new_data = ParsedRows(batches[k], parsed)
             /\ failures = Cardinality({i \in 1..Len(parsed) : ~parsed[i].ok})
    /\ (failures > 0 /\ ~HasDuplicates(new_data))
          => ~(pc = "raised" /\ raised_in = "__generate_missing_rows")

(* C6 as claimed: with filenames to plan and a batch size of zero or less, *)
(* planning raises and nothing is written.                                 *)
C6_NonPositiveBatchRejected ==
    (batch <= 0 /\ filenames # <<>> /\ pc # "trim_split")
        => (pc = "raised" /\ raised_in = "__trim_split_filenames"
            /\ appended = <<>>)

(* C8 as claimed: an invalid source ends the process in __get_filenames,   *)
(* nothing loaded or written, with an exit status other than the 0 of the  *)
(* "no new data" exit.                                                     *)
C8_InvalidSourceFails ==
    (source = "invalid" /\ pc # "get_filenames")
        => (pc = "exited" /\ store = <<>> /\ appended = <<>> /\ status # 0)

(* C9 as claimed: whatever non-empty table the loader gave, grid           *)
(* completion returns one row for every minute from the first to the last  *)
(* and every station of the table, the table's rows with their values and  *)
(* the other rows missing.                                                 *)
IsCompleteGrid(grid, loaded) ==
    LET dates == {loaded[i].date_utc : i \in 1..Len(loaded)}
        minutes == {m \in SetMin(dates)..SetMax(dates) : m % Minute = 0}
        stations == {loaded[i].name : i \in 1..Len(loaded)}
    IN  /\ Len(grid) = Cardinality(minutes) * Cardinality(stations)
        /\ \A m \in minutes, st \in stations :
              Cardinality({x \in 1..Len(grid) : Key(grid[x]) = <<m, st>>}) = 1
        /\ \A x \in 1..Len(grid) :
              IF \E i \in 1..Len(loaded) : Key(loaded[i]) = Key(grid[x])
              THEN \E i \in 1..Len(loaded) : loaded[i] = grid[x]
              ELSE grid[x].val = NaN

AfterGrid ==
    \/ pc = "add_weather_data"
    \/ pc = "raised" /\ raised_in = "__generate_missing_rows"

C9_GridComplete ==
    (AfterGrid /\ ParsedRows(batches[k], parsed) # <<>>)
        => /\ pc = "add_weather_data"
           /\ IsCompleteGrid(new_data, ParsedRows(batches[k], parsed))

----------------------------------------------------------------------------
(* Properties of __trim_split_filenames, under SpecPlan *)

Planned == pc \in {"get_bike_data", "returned"}

Kept(fs, fst, lim) ==
    LET after_first == SelectSeq(fs, LAMBDA f : ~(f.ts < fst))
    IN  IF lim > 0 /\ lim < Len(after_first)
        THEN SubSeq(after_first, 1, lim)
        ELSE after_first

(* C5.  For a batch size of 1 or more the batches, put end to end, are the *)
(* filenames with a timestamp >= first (one equal to first is kept), cut   *)
(* to the first limit of them when limit > 0; no batch is empty or longer  *)
(* than the batch size and all but the last hold exactly batch entries.    *)
C5_OrderPreservingPartition ==
    (Planned /\ batch >= 1)
        => /\ Flatten(batches) = Kept(filenames, first, limit)
           /\ \A i \in 1..Len(batches) :
                 Len(batches[i]) >= 1 /\ Len(batches[i]) <= batch
           /\ \A i \in 1..(Len(batches) - 1) : Len(batches[i]) = batch

(* C5's case: two batches, the last one short, an entry equal to first.    *)
C5_Witness ==
    /\ pc = "get_bike_data"
    /\ batch = 2
    /\ Len(batches) = 2
    /\ Len(batches[2]) = 1
    /\ first > 0
    /\ batches[1][1].ts = first

----------------------------------------------------------------------------
(* Properties of __get_filenames, under SpecList *)

(* C7.  When __get_filenames returns, the list is the listed names that    *)
(* match the pattern and have a timestamp > after, in the listing's order; *)
(* none has a timestamp <= after.                                          *)
C7_ExactlyTheNewMatches ==
    pc = "trim_split"
        => /\ filenames = SelectSeq(names, LAMBDA n :
                              n.kind # "other" /\ n.ts > Last_date(df_data))
           /\ \A i \in 1..Len(filenames) :
                 ~(filenames[i].ts <= Last_date(df_data))

(* C7's case: a listing out of time order that holds the name equal to     *)
(* after; the two newer names come back in the listing's order.            *)
C7_Witness ==
    /\ pc = "trim_split"
    /\ df_data # <<>>
    /\ \E i \in 1..Len(names) :
          names[i].kind = "ok" /\ names[i].ts = Last_date(df_data)
    /\ Len(filenames) = 2
    /\ filenames[1].ts > filenames[2].ts

----------------------------------------------------------------------------
(* Properties of __get_weather_data, under SpecWeather *)

FetchedRows == Flatten([i \in 1..Len(w_log) |-> w_log[i].answer.rows])

(* C4 as claimed: whichever sub-ranges failed, all of them included, every *)
(* sub-range was fetched in order, the failed ones gave no rows and the    *)
(* function returned.                                                      *)
C4_FetchFailuresRecoverable ==
    (pc # "get_weather_range" /\ \E i \in 1..Len(w_log) : w_log[i].answer.none)
        => /\ pc = "join"
           /\ [i \in 1..Len(w_log) |-> w_log[i].start]
                 = DateRange(w_start, w_stop, w_step)
           /\ w_data = FetchedRows

RECURSIVE FirstOccurrences(_, _)
FirstOccurrences(rows, seen) ==
    IF rows = <<>> THEN <<>>
    ELSE IF Head(rows).t \in seen THEN FirstOccurrences(Tail(rows), seen)
    ELSE <<Head(rows)>>
         \o FirstOccurrences(Tail(rows), seen \cup {Head(rows).t})

(* concatenate, deduplicate keeping first, then fill forward and backward *)
AsSpecified(rows) == BFill(FFill(FirstOccurrences(rows, {})))

(* rows of one timestamp stand next to each other with the same rainfall *)
DuplicatesAgree(rows) ==
    \A i, j \in 1..Len(rows) :
        (i < j /\ rows[i].t = rows[j].t)
            => /\ rows[i].R_1H = rows[j].R_1H
               /\ \A m \in i..j : rows[m].t = rows[i].t

KeepsFirstOccurrences(table, rows) ==
    LET firsts == FirstOccurrences(rows, {})
    IN  /\ Len(table) = Len(firsts)
        /\ \A n \in 1..Len(table) :
              /\ table[n].t = firsts[n].t
              /\ table[n].T = firsts[n].T
              /\ table[n].WS_10MIN = firsts[n].WS_10MIN
              /\ table[n].P_SEA = firsts[n].P_SEA
              /\ firsts[n].R_1H # NaN => table[n].R_1H = firsts[n].R_1H

----------------------------------------------------------------------------
(* add_weather_data's join on any grid and any weather table: the grid of  *)
(* one batch of files that all parsed, and a table as __get_weather_data   *)
(* returns it from a service answering in time order (one row per time,    *)
(* times increasing, rainfall filled everywhere or missing everywhere).    *)

RECURSIVE SortedTimes(_)
SortedTimes(S) ==
    IF S = {} THEN <<>>
    ELSE <<SetMin(S)>> \o SortedTimes(S \ {SetMin(S)})

WeatherTables ==
    {[i \in 1..Len(SortedTimes(S)) |->
         Obs(SortedTimes(S)[i], SortedTimes(S)[i], rain)] :
     S \in (SUBSET ({0} \cup Ticks)) \ {{}}, rain \in {NaN, 7}}

InitJoin ==
    /\ source = "dir"
    /\ names \in Listings \ {<<>>}
    /\ filenames = names
    /\ first = 0
    /\ limit = 0
    /\ batch = Len(names)
    /\ batches = <<names>>
    /\ k = 1
    /\ parsed \in [1..Len(names) -> Reads \ {Failed}]
    /\ failures = 0
    /\ ~HasDuplicates(LoadRows(names, parsed))
    /\ new_data = Grid(LoadRows(names, parsed))
    /\ weather_data \in WeatherTables
    /\ w_start = new_data[1].date_utc
    /\ w_stop = new_data[Len(new_data)].date_utc + Pad
    /\ w_step = Step
    /\ w_todo = <<>>
    /\ w_data = weather_data
    /\ w_log = <<>>
    /\ store = <<>>
    /\ df_data = <<>>
    /\ pc = "join"
    /\ run = 1
    /\ service = "any"
    /\ status = NaN
    /\ raised_in = ""
    /\ appended = <<>>

SpecJoin == InitJoin /\ [][AddWeatherDataJoin]_vars

----------------------------------------------------------------------------
(* Properties of add_weather_data, under SpecJoin *)

(* the grid add_weather_data was given *)
GridGiven == Grid(ParsedRows(batches[k], parsed))

Distance(a, b) == IF a < b THEN b - a ELSE a - b

Equidistant(weather, t) ==
    \E i, j \in 1..Len(weather) :
        /\ weather[i].t < t
        /\ weather[j].t > t
        /\ t - weather[i].t = weather[j].t - t
        /\ \A n \in 1..Len(weather) :
              Distance(weather[n].t, t) >= t - weather[i].t

SameStationRow(row, given) ==
    /\ row.date_utc = given.date_utc
    /\ row.name = given.name
    /\ row.val = given.val

HasWeatherOf(row, w) ==
    /\ row.T = w.T
    /\ row.WS_10MIN = w.WS_10MIN
    /\ row.P_SEA = w.P_SEA
    /\ row.R_1H = w.R_1H

====
